---- MODULE Spec2Model ----
(***************************************************************************)
(* The worker lifecycle of src/app.py: the Agents registry (models.py),    *)
(* find_available_port, start_agent and stop_agent, run by concurrent      *)
(* request handlers against one database and one operating system.         *)
(*                                                                         *)
(* A handler is cut into steps at the points where it sleeps: start_agent  *)
(* runs from the query to Popen in two steps (the load with the liveness   *)
(* probe and the stale-record reset; the port scan with Popen), sleeps,    *)
(* then polls and commits; stop_agent runs from the query to the SIGTERM,  *)
(* sleeps, then probes, kills and commits.  A commit and the return that   *)
(* follows it are one step.  Only the posix branch (os.name == 'posix') of *)
(* the handlers is modelled.                                               *)
(***************************************************************************)
EXTENDS Integers, FiniteSets, TLC

\* ------------------------------------------------------------------ bounds
MaxPid == 2          \* the OS process table has pids 1..MaxPid (pids are reused)
MaxRequests == 4     \* start, stop and read requests served in one run

\* --------------------------------------------------------- program constants
BASE_AGENT_PORT == 6000
PORT_MAX == 65535
None == 0            \* a NULL column / Python None (falsy, like 0)

Workers == {"w1", "w2"}      \* agent ids (uuid4 prefixes in the code)
Reqs == {"r1", "r2"}         \* request handlers running at the same time
Pids == 1..MaxPid

VARIABLES
  db,         \* the agents table: agentid -> row (status, port, pid), committed state
  procs,      \* OS process table: pid -> entry
  hostBase,   \* TRUE when port 6000 is bound by a program that is not a worker
  farBusy,    \* TRUE when every port from 6001 to 65535 is bound by other programs
  req,        \* request handlers: position, session copy of the record, locals
  resp,       \* the HTTP response sent by the step just taken (NoResp when none)
  nreq,       \* requests served so far
  sent        \* the signal the step just taken delivered

vars == <<db, procs, hostBase, farBusy, req, resp, nreq, sent>>

\* ------------------------------------------------------------ the registry
\* A row of the agents table, reduced to the columns the lifecycle writes.
Agents(status, port, pid) == [status |-> status, port |-> port, pid |-> pid]

\* Agents.query.filter_by(agentid=...).first() returning None
NoRow == Agents("absent", None, None)

\* The row create_agent inserts: status='created', port and pid NULL.
NewAgent == Agents("created", None, None)

\* ------------------------------------------------------------ the OS
FreePid == [state |-> "free", port |-> None, bound |-> FALSE]
HostProc == [state |-> "host", port |-> None, bound |-> FALSE]
Child(port) == [state |-> "alive", port |-> port, bound |-> FALSE]
Exited == [state |-> "exited", port |-> None, bound |-> FALSE]

\* s.bind(("127.0.0.1", port)) fails: some program holds the port.
is_port_in_use(port) ==
  \/ hostBase /\ port = BASE_AGENT_PORT
  \/ farBusy /\ port > BASE_AGENT_PORT
  \/ \E p \in Pids : procs[p].state = "alive" /\ procs[p].bound /\ procs[p].port = port

\* os.kill(pid, 0) returns without OSError: the pid names a process (running,
\* or exited and not yet reaped) that the manager may signal.  A process of
\* another user raises PermissionError, which is an OSError.
ProbeOk(pid) == procs[pid].state \in {"alive", "exited"}

\* os.killpg(os.getpgid(pid), sig) delivering sig to the group of pid; NoSignal
\* when the step delivers none.
Signal(pid, sig) == [pid |-> pid, sig |-> sig]
NoSignal == Signal(None, "none")

\* ------------------------------------------------------------ requests
\* A handler between requests.
Idle == [pc |-> "idle", id |-> "w1", sess |-> NoRow, port |-> None, proc |-> None,
         stale |-> FALSE]

\* A handler inside a request on agent id, holding the session's copy of the
\* record; stale tells that the request found the record stale and reset it.
Busy(pc, id, agent, port, pid, stale) ==
  [pc |-> pc, id |-> id, sess |-> agent, port |-> port, proc |-> pid, stale |-> stale]

NoResp == [op |-> "none", id |-> "w1", msg |-> "none", port |-> None, pid |-> None]

\* jsonify(...) of a handler: the route, the agent id, which return statement,
\* and the port and pid of the body.
Resp(op, id, msg, port, pid) == [op |-> op, id |-> id, msg |-> msg, port |-> port, pid |-> pid]

\* The HTTP status each return statement carries.
Code(msg) ==
  CASE msg \in {"already_running", "started", "reset", "not_running", "stopped",
                "listed", "created", "running", "error"} -> 200
    [] msg \in {"not_found", "file_missing"} -> 404
    [] msg \in {"no_port", "launch_failed", "stop_error"} -> 500
    [] OTHER -> 0

TypeOK ==
  /\ \A w \in Workers :
       /\ db[w].status \in {"absent", "created", "running", "stopped", "error"}
       /\ db[w].port = None \/ (BASE_AGENT_PORT <= db[w].port /\ db[w].port <= PORT_MAX)
       /\ db[w].pid \in {None} \cup Pids
  /\ \A p \in Pids : procs[p].state \in {"free", "host", "alive", "exited"}
  /\ \A r \in Reqs : req[r].pc \in {"idle", "s_launch", "s_grace", "t_wait"}
  /\ nreq \in 0..MaxRequests
  /\ sent.sig \in {"none", "SIGTERM", "SIGKILL"}
  /\ sent.pid \in {None} \cup Pids

Init ==
  /\ db = [w \in Workers |-> NoRow]
  /\ procs = [p \in Pids |-> FreePid]
  \* the hosts considered: every port free, only port 6000 free, no port free
  /\ farBusy \in BOOLEAN
  /\ hostBase \in (IF farBusy THEN BOOLEAN ELSE {FALSE})
  /\ req = [r \in Reqs |-> Idle]
  /\ resp = NoResp
  /\ nreq = 0
  /\ sent = NoSignal

\* ------------------------------------------------------------ the session
\* db.session.commit() after assigning attributes of the loaded object: the
\* ORM's unit of work writes the columns whose assigned value differs from the
\* value the session loaded; a column assigned the value it already had in the
\* session is not part of the UPDATE and keeps whatever the row holds now.
Flush(row, loaded, assigned) ==
  [status |-> IF assigned.status = loaded.status THEN row.status ELSE assigned.status,
   port   |-> IF assigned.port = loaded.port THEN row.port ELSE assigned.port,
   pid    |-> IF assigned.pid = loaded.pid THEN row.pid ELSE assigned.pid]

\* The table after request r commits `assigned` for its agent.
Commit(r, assigned) ==
  [db EXCEPT ![req[r].id] = Flush(db[req[r].id], req[r].sess, assigned)]

\* ------------------------------------------------------------ port allocator
\* used_ports: the port attribute of every object the query returns.  The query
\* filters on the committed rows; the object of the request's own agent is the
\* one the session already holds, so its port is the session's copy.
used_ports(r) ==
  { IF a = req[r].id THEN req[r].sess.port ELSE db[a].port :
      a \in { w \in Workers : db[w].status = "running" /\ db[w].port # None } }

\* The while loop of find_available_port from candidate `port`; None stands for
\* the raised Exception("No available ports found.").  When farBusy holds every
\* candidate above 6000 passes the loop test, so the loop runs to 65536 and
\* raises: that stretch is answered without stepping through it.
RECURSIVE scan_ports(_, _)
scan_ports(port, used) ==
  IF ~(port \in used \/ is_port_in_use(port)) THEN port
  ELSE IF port + 1 > PORT_MAX THEN None
  ELSE IF farBusy THEN None
  ELSE scan_ports(port + 1, used)

find_available_port(r, start_port) == scan_ports(start_port, used_ports(r))

\* ------------------------------------------------------------ create_agent
\* POST /agents: writes the agent file, inserts the row with status 'created'.
\* The id is a fresh uuid, so it names no existing row.
create_agent(w) ==
  /\ sent' = NoSignal
  /\ db[w] = NoRow
  /\ db' = [db EXCEPT ![w] = NewAgent]
  /\ resp' = NoResp
  /\ UNCHANGED <<procs, hostBase, farBusy, req, nreq>>

\* ------------------------------------------------------------ reads
\* GET /agents/<id>: the row's to_dict(), or 404; nothing is written.
get_agent(w) ==
  /\ resp' = IF db[w] = NoRow THEN Resp("get", w, "not_found", None, None)
                              ELSE Resp("get", w, db[w].status, db[w].port, db[w].pid)
  /\ sent' = NoSignal
  /\ nreq < MaxRequests
  /\ nreq' = nreq + 1
  /\ UNCHANGED <<db, procs, hostBase, farBusy, req>>

\* GET /agents: every row's to_dict() (the body is not carried in resp); nothing
\* is written.
get_all_agents ==
  /\ resp' = Resp("list", "w1", "listed", None, None)
  /\ sent' = NoSignal
  /\ nreq < MaxRequests
  /\ nreq' = nreq + 1
  /\ UNCHANGED <<db, procs, hostBase, farBusy, req>>

\* ------------------------------------------------------------ start_agent
\* (mutant) an unknown id gets a row
NotFoundInsertsRow(op, id) ==
  /\ resp' = Resp(op, id, "not_found", None, None)
  /\ db' = [db EXCEPT ![id] = NewAgent]
  /\ req' = req

\* Lines 189-191 and 282-284: the query returned None; 404 "Agent not found".
NotFound(op, id) ==
  /\ resp' = Resp(op, id, "not_found", None, None)
  /\ UNCHANGED <<db, req>>

\* (mutant) the launch goes ahead without looking for the file
FileCheckSkipped(r, id, agent, exists, stale) ==
  /\ req' = [req EXCEPT ![r] = Busy("s_launch", id, agent, None, None, stale)]
  /\ resp' = NoResp

\* Lines 207-208, reached with the session copy `agent`: os.path.exists of the
\* agent file (exists is what the file system answers).
FileCheck(r, id, agent, exists, stale) ==
  IF ~exists
  THEN /\ req' = req
       /\ resp' = Resp("start", id, "file_missing", None, None)
  ELSE /\ req' = [req EXCEPT ![r] = Busy("s_launch", id, agent, None, None, stale)]
       /\ resp' = NoResp

\* (mutant) the already-running answer without the port
AlreadyRunningNoPort(id, agent) ==
  /\ resp' = Resp("start", id, "already_running", None, None)
  /\ UNCHANGED <<db, req>>

\* Lines 196-198: the probe succeeded; the recorded port is returned.
AlreadyRunning(id, agent) ==
  /\ resp' = Resp("start", id, "already_running", agent.port, None)
  /\ UNCHANGED <<db, req>>

\* (mutant) the reset is assigned and never committed
ResetStaleNoCommit(id, agent) ==
  db' = db

\* Lines 199-204: the probe raised OSError; the record is reset and committed.
ResetStale(id, agent) ==
  db' = [db EXCEPT ![id] = Flush(db[id], agent, Agents("error", None, None))]

\* Lines 189-208: load the record; for a record marked running with a pid the
\* liveness probe, and the reset of a stale record; then the file check.
StartLoad(r, id, exists) ==
  /\ sent' = NoSignal
  /\ req[r].pc = "idle"
  /\ nreq < MaxRequests
  /\ nreq' = nreq + 1
  /\ LET agent == db[id] IN
       IF agent = NoRow
       THEN NotFound("start", id)
       ELSE IF agent.status = "running" /\ agent.pid # None
       THEN IF ProbeOk(agent.pid)
            THEN AlreadyRunning(id, agent)
            ELSE /\ ResetStale(id, agent)
                 \* the commit expires the object; agent.file_path reloads the row
                 /\ FileCheck(r, id, db'[id], exists, TRUE)
       ELSE /\ FileCheck(r, id, agent, exists, FALSE)
            /\ db' = db
  /\ UNCHANGED <<procs, hostBase, farBusy>>

\* (mutant) a failed launch removes the record
LaunchFailedDeletesRow(r) ==
  /\ db' = [db EXCEPT ![req[r].id] = NoRow]
  /\ req' = [req EXCEPT ![r] = Idle]
  /\ resp' = Resp("start", req[r].id, "launch_failed", None, None)

\* Lines 270-276: the except branch of the launch.
LaunchFailed(r) ==
  /\ db' = Commit(r, Agents("error", None, None))
  /\ req' = [req EXCEPT ![r] = Idle]
  /\ resp' = Resp("start", req[r].id, "launch_failed", None, None)

\* Lines 210-248: find_available_port, then subprocess.Popen.
StartLaunch(r) ==
  /\ sent' = NoSignal
  /\ req[r].pc = "s_launch"
  /\ LET port == find_available_port(r, BASE_AGENT_PORT) IN
       IF port = None
       THEN /\ req' = [req EXCEPT ![r] = Idle]
            /\ resp' = Resp("start", req[r].id, "no_port", None, None)
            /\ UNCHANGED <<db, procs>>
       ELSE IF \A p \in Pids : procs[p].state # "free"
       THEN \* fork fails: Popen raises OSError
            /\ LaunchFailed(r)
            /\ UNCHANGED procs
       ELSE \E p \in Pids :          \* the child takes any free pid
            /\ procs[p].state = "free"
            /\ procs' = [procs EXCEPT ![p] = Child(port)]
            /\ req' = [req EXCEPT ![r].pc = "s_grace", ![r].port = port, ![r].proc = p]
            /\ resp' = NoResp
            /\ db' = db
  /\ UNCHANGED <<hostBase, farBusy, nreq>>

\* (mutant) the handler waits for the child to exit instead of polling once
StartPollWaitsForExit(r) ==
  /\ sent' = NoSignal
  /\ req[r].pc = "s_grace"
  /\ LET p == req[r].proc IN
       IF procs[p].state = "exited"
       THEN /\ procs' = [procs EXCEPT ![p] = FreePid]
            /\ LaunchFailed(r)
       ELSE /\ resp' = NoResp
            /\ UNCHANGED <<db, req, procs>>
  /\ UNCHANGED <<hostBase, farBusy, nreq>>

\* Lines 250-268: after time.sleep(2), process.poll() and the commit.
StartPoll(r) ==
  /\ sent' = NoSignal
  /\ req[r].pc = "s_grace"
  /\ LET p == req[r].proc IN
       IF procs[p].state = "exited"
       THEN \* poll() reaps the child and returns its exit code
            /\ procs' = [procs EXCEPT ![p] = FreePid]
            /\ LaunchFailed(r)
       ELSE /\ db' = Commit(r, Agents("running", req[r].port, p))
            /\ req' = [req EXCEPT ![r] = Idle]
            /\ resp' = Resp("start", req[r].id, "started", req[r].port, p)
            /\ UNCHANGED procs
  /\ UNCHANGED <<hostBase, farBusy, nreq>>

\* ------------------------------------------------------------ stop_agent
\* (mutant) ProcessLookupError handled like any other exception
AlreadyGoneIsError(id, agent) ==
  /\ db' = [db EXCEPT ![id] = Flush(db[id], agent, Agents("error", None, None))]
  /\ resp' = Resp("stop", id, "stop_error", None, None)
  /\ req' = req

\* Lines 325-326 and 336-342: ProcessLookupError, then the final update.
AlreadyGone(id, agent) ==
  /\ db' = [db EXCEPT ![id] = Flush(db[id], agent, Agents("stopped", None, None))]
  /\ resp' = Resp("stop", id, "stopped", None, None)
  /\ req' = req

\* (mutant) the error is reported and the record left as it was
StopFailedKeepsRecord(id, agent) ==
  /\ db' = db
  /\ resp' = Resp("stop", id, "stop_error", None, None)
  /\ req' = req

\* Lines 327-334: any other exception of the signalling.
StopFailed(id, agent) ==
  /\ db' = [db EXCEPT ![id] = Flush(db[id], agent, Agents("error", None, None))]
  /\ resp' = Resp("stop", id, "stop_error", None, None)
  /\ req' = req

\* (mutant) the inconsistent record is reported and left as it is
RepairNoWrite(id, agent) ==
  /\ db' = db
  /\ resp' = Resp("stop", id, "reset", None, None)
  /\ req' = req

\* Lines 288-292: status 'running' and no pid; the record is set to 'stopped'
\* with the port cleared, committed, and 200 returned.
RepairNoPid(id, agent) ==
  /\ db' = [db EXCEPT ![id] =
              Flush(db[id], agent, [agent EXCEPT !.status = "stopped", !.port = None])]
  /\ resp' = Resp("stop", id, "reset", None, None)
  /\ req' = req

\* (mutant) a record that is not running is marked 'stopped'
NotRunningMarksStopped(id) ==
  /\ resp' = Resp("stop", id, "not_running", None, None)
  /\ db' = [db EXCEPT ![id].status = "stopped"]
  /\ req' = req

\* Line 293: the record is not running; 200 "is not running", nothing written.
NotRunning(id) ==
  /\ resp' = Resp("stop", id, "not_running", None, None)
  /\ UNCHANGED <<db, req>>

\* Lines 282-309 and 325-340: load the record; the not-running and no-pid
\* branches; os.killpg(os.getpgid(pid_to_kill), SIGTERM):
\*   no such process  -> ProcessLookupError, handled as already stopped;
\*   foreign process  -> PermissionError, the generic except branch;
\*   otherwise the signal is delivered and the handler sleeps.
StopLoad(r, id) ==
  /\ req[r].pc = "idle"
  /\ nreq < MaxRequests
  /\ nreq' = nreq + 1
  /\ LET agent == db[id] IN
       IF agent = NoRow
       THEN NotFound("stop", id) /\ sent' = NoSignal
       ELSE IF agent.status # "running" \/ agent.pid = None
       THEN IF agent.status = "running" /\ agent.pid = None
            THEN RepairNoPid(id, agent) /\ sent' = NoSignal
            ELSE NotRunning(id) /\ sent' = NoSignal
       ELSE IF procs[agent.pid].state = "free"
       THEN AlreadyGone(id, agent) /\ sent' = NoSignal
       ELSE IF procs[agent.pid].state = "host"
       THEN StopFailed(id, agent) /\ sent' = NoSignal
       ELSE /\ req' = [req EXCEPT ![r] = Busy("t_wait", id, agent, None, agent.pid, FALSE)]
            /\ resp' = NoResp
            /\ sent' = Signal(agent.pid, "SIGTERM")
            /\ db' = db
  /\ UNCHANGED <<procs, hostBase, farBusy>>

\* (mutant) the kill is sent without looking at the probe
StopCheckKillsBlind(r) ==
  /\ req[r].pc = "t_wait"
  /\ LET p == req[r].proc IN
       /\ procs' = IF ProbeOk(p) THEN [procs EXCEPT ![p] = Exited] ELSE procs
       /\ sent' = Signal(p, "SIGKILL")
  /\ db' = Commit(r, Agents("stopped", None, None))
  /\ req' = [req EXCEPT ![r] = Idle]
  /\ resp' = Resp("stop", req[r].id, "stopped", None, None)
  /\ UNCHANGED <<hostBase, farBusy, nreq>>

\* Lines 311-342: after time.sleep(1), the probe, SIGKILL to the group when the
\* probe succeeds, and the final update.
StopCheck(r) ==
  /\ req[r].pc = "t_wait"
  /\ LET p == req[r].proc IN
       IF ProbeOk(p)
       THEN /\ procs' = [procs EXCEPT ![p] = Exited]
            /\ sent' = Signal(p, "SIGKILL")
       ELSE /\ procs' = procs
            /\ sent' = NoSignal
  /\ db' = Commit(r, Agents("stopped", None, None))
  /\ req' = [req EXCEPT ![r] = Idle]
  /\ resp' = Resp("stop", req[r].id, "stopped", None, None)
  /\ UNCHANGED <<hostBase, farBusy, nreq>>

\* ------------------------------------------------------------ environment
\* The worker (agent_template.py, app.run) binds FLASK_PORT; when the port is
\* taken the bind fails and the worker exits.
ChildBind(p) ==
  /\ sent' = NoSignal
  /\ procs[p].state = "alive"
  /\ ~procs[p].bound
  /\ procs' = [procs EXCEPT ![p] = IF is_port_in_use(procs[p].port)
                                   THEN Exited
                                   ELSE [procs[p] EXCEPT !.bound = TRUE]]
  /\ resp' = NoResp
  /\ UNCHANGED <<db, hostBase, farBusy, req, nreq>>

\* (mutant) a sweep marks the record of a worker that exits
ChildExitReconciles(p) ==
  /\ sent' = NoSignal
  /\ procs[p].state = "alive"
  /\ procs' = [procs EXCEPT ![p] = Exited]
  /\ db' = [w \in Workers |-> IF db[w].pid = p THEN Agents("error", None, None) ELSE db[w]]
  /\ resp' = NoResp
  /\ UNCHANGED <<hostBase, farBusy, req, nreq>>

\* A worker exits on its own (crash, SIGTERM taking effect); it stays in the
\* process table until its parent reaps it.
ChildExit(p) ==
  /\ sent' = NoSignal
  /\ procs[p].state = "alive"
  /\ procs' = [procs EXCEPT ![p] = Exited]
  /\ resp' = NoResp
  /\ UNCHANGED <<db, hostBase, farBusy, req, nreq>>

\* An exited worker no handler is polling is reaped; its pid becomes free.
Reap(p) ==
  /\ sent' = NoSignal
  /\ procs[p].state = "exited"
  /\ \A r \in Reqs : ~(req[r].pc = "s_grace" /\ req[r].proc = p)
  /\ procs' = [procs EXCEPT ![p] = FreePid]
  /\ resp' = NoResp
  /\ UNCHANGED <<db, hostBase, farBusy, req, nreq>>

\* Another program's process takes a free pid, or leaves.
HostSpawn(p) ==
  /\ sent' = NoSignal
  /\ procs[p].state = "free"
  /\ procs' = [procs EXCEPT ![p] = HostProc]
  /\ resp' = NoResp
  /\ UNCHANGED <<db, hostBase, farBusy, req, nreq>>

HostExit(p) ==
  /\ sent' = NoSignal
  /\ procs[p].state = "host"
  /\ procs' = [procs EXCEPT ![p] = FreePid]
  /\ resp' = NoResp
  /\ UNCHANGED <<db, hostBase, farBusy, req, nreq>>

Next ==
  \/ \E w \in Workers : create_agent(w)
  \/ \E w \in Workers : get_agent(w)
  \/ get_all_agents
  \/ \E r \in Reqs, w \in Workers, exists \in BOOLEAN : StartLoad(r, w, exists)
  \/ \E r \in Reqs : StartLaunch(r)
  \/ \E r \in Reqs : StartPoll(r)
  \/ \E r \in Reqs, w \in Workers : StopLoad(r, w)
  \/ \E r \in Reqs : StopCheck(r)
  \/ \E p \in Pids : ChildBind(p)
  \/ \E p \in Pids : ChildExit(p)
  \/ \E p \in Pids : Reap(p)
  \/ \E p \in Pids : HostSpawn(p)
  \/ \E p \in Pids : HostExit(p)

Spec == Init /\ [][Next]_vars

\* The handlers run on threads the server schedules: a handler that can take
\* its next step (the return from time.sleep and the code after it) takes it.
\* The workers and the other programs of the host owe nothing.
FairSpec ==
  /\ Spec
  /\ \A r \in Reqs : /\ WF_vars(StartLaunch(r))
                      /\ WF_vars(StartPoll(r))
                      /\ WF_vars(StopCheck(r))

\* A later moment of a run of Spec, taken as the start of the requests counted:
\* four overlapping start requests on w1 have left its record 'running' with no
\* pid (RunningNoPidReached is reached under Spec), and one worker of that run
\* is still alive on port 6000.
RepairInit ==
  /\ db = [w \in Workers |-> IF w = "w1" THEN Agents("running", None, None) ELSE NoRow]
  /\ procs = [p \in Pids |-> IF p = 1 THEN [Child(BASE_AGENT_PORT) EXCEPT !.bound = TRUE]
                                       ELSE FreePid]
  /\ hostBase = FALSE
  /\ farBusy = FALSE
  /\ req = [r \in Reqs |-> Idle]
  /\ resp = NoResp
  /\ sent = NoSignal
  /\ nreq = 0

RepairSpec == RepairInit /\ [][Next]_vars

\* The state of RepairInit, the count of requests aside.
RunningNoPidReached ==
  /\ db = [w \in Workers |-> IF w = "w1" THEN Agents("running", None, None) ELSE NoRow]
  /\ procs = [p \in Pids |-> IF p = 1 THEN [Child(BASE_AGENT_PORT) EXCEPT !.bound = TRUE]
                                       ELSE FreePid]
  /\ ~hostBase /\ ~farBusy
  /\ req = [r \in Reqs |-> Idle]
  /\ resp = NoResp
  /\ sent = NoSignal

\* ==================================================================== claims
Running(w) == db[w].status = "running"

\* The step is handler r returning from a start (resp' is its response).
StartReturns(r) == req[r].pc \in {"s_launch", "s_grace"} /\ req'[r].pc = "idle"

\* C1: port uniqueness -- no two distinct records that are both 'running' hold
\* the same port.
C1_PortUniqueness ==
  \A a, b \in Workers :
    (a # b /\ Running(a) /\ Running(b) /\ db[a].port # None) => db[a].port # db[b].port

\* C2: concurrent start race -- of two start requests that both loaded the same
\* worker in status 'created', at most one gets as far as spawning a process.
C2_OneSpawnPerCreated ==
  \A r1, r2 \in Reqs :
    (r1 # r2 /\ req[r1].pc = "s_grace" /\ req[r2].pc = "s_grace"
       /\ req[r1].id = req[r2].id
       /\ req[r1].sess.status = "created" /\ req[r2].sess.status = "created")
    => req[r1].proc = req[r2].proc

\* C3: pid/port pairing -- in every committed registry state, for every record,
\* port is non-null exactly when pid is non-null.
C3_PidPortPairing ==
  \A w \in Workers : (db[w].port # None) <=> (db[w].pid # None)

\* C4: idempotent start -- a start request on a record that is 'running' with a
\* pid that passes the liveness probe returns the recorded port, allocates no
\* port, spawns no process and leaves the registry unchanged.
C4_IdempotentStart ==
  [][\A r \in Reqs, id \in Workers, exists \in BOOLEAN :
       (StartLoad(r, id, exists) /\ Running(id) /\ db[id].pid # None /\ ProbeOk(db[id].pid))
       => /\ resp' = Resp("start", id, "already_running", db[id].port, None)
          /\ db' = db /\ procs' = procs /\ req' = req]_vars

C4_Witness ==
  /\ resp.msg = "already_running" /\ resp.port # None
  /\ Running(resp.id) /\ db[resp.id].port = resp.port

\* C5 (as stated): a start request that finds the record stale resets it to
\* 'error' with port and pid cleared before it allocates or spawns, and the
\* request then succeeds with the record 'running'.
C5_StaleStartSucceeds ==
  [][\A r \in Reqs : (req[r].stale /\ StartReturns(r)) => resp'.msg = "started"]_vars

\* C5 (amended): a start request on a record marked 'running' whose pid fails
\* the liveness probe commits the record as 'error' with port and pid cleared in
\* the step that probes, before any port is allocated or process spawned (no
\* process is spawned in that step); when afterwards a port is found, the child is
\* spawned and is alive at the poll, the request succeeds with the record
\* 'running' holding the allocated port and the child's pid.
C5_StaleSelfHeal ==
  [][\A r \in Reqs :
       /\ \A id \in Workers, exists \in BOOLEAN :
            (StartLoad(r, id, exists) /\ Running(id) /\ db[id].pid # None
               /\ ~ProbeOk(db[id].pid))
            => /\ db'[id] = Agents("error", None, None)
               /\ procs' = procs
               /\ req'[r].pc \in {"idle", "s_launch"}
               /\ req'[r].pc = "s_launch" => req'[r].stale
       /\ (req[r].stale /\ StartPoll(r) /\ procs[req[r].proc].state # "exited")
            => /\ resp' = Resp("start", req[r].id, "started", req[r].port, req[r].proc)
               /\ db'[req[r].id] = Agents("running", req[r].port, req[r].proc)]_vars

\* a request that found its record stale has committed the reset and spawned
\* its child, which is alive and bound
C5_Witness ==
  \E r \in Reqs :
    /\ req[r].stale /\ req[r].pc = "s_grace"
    /\ db[req[r].id] = Agents("error", None, None)
    /\ procs[req[r].proc].state = "alive" /\ procs[req[r].proc].bound

\* C6: launch-failure atomicity -- when the child has exited at the poll after
\* the grace interval the start fails and the record is 'error' with port and
\* pid null; a record is committed 'running' only when the child was alive.
C6_LaunchFailureAtomic ==
  [][\A r \in Reqs :
       (StartPoll(r) /\ procs[req[r].proc].state = "exited")
       => /\ resp'.msg = "launch_failed"
          /\ db'[req[r].id] = Agents("error", None, None)]_vars

C8_StartFailureLeavesError ==
  [][\A r \in Reqs :
       (StartReturns(r) /\ resp'.msg \in {"no_port", "launch_failed"})
       => db'[req[r].id] = Agents("error", None, None)]_vars

C10_DistinctAllocations ==
  \A r1, r2 \in Reqs :
    (r1 # r2 /\ req[r1].pc = "s_grace" /\ req[r2].pc = "s_grace" /\ req[r1].id # req[r2].id)
    => req[r1].port # req[r2].port

\* C11: a start or stop request for an unknown worker id reports NotFound (404)
\* and leaves every registry record unchanged, spawns no process and signals no
\* process.
C11_NotFoundFrame ==
  [][\A r \in Reqs, id \in Workers :
       ((\/ \E exists \in BOOLEAN : StartLoad(r, id, exists)
         \/ StopLoad(r, id)) /\ db[id] = NoRow)
       => /\ resp'.msg = "not_found" /\ resp'.id = id /\ Code(resp'.msg) = 404
          /\ db' = db /\ procs' = procs /\ req' = req
          /\ sent' = NoSignal]_vars

\* a request for an id with no row has been answered while another worker runs
C11_Witness ==
  /\ resp.op \in {"start", "stop"}
  /\ resp.msg = "not_found" /\ db[resp.id] = NoRow
  /\ \E w \in Workers : Running(w)

\* The ports the claim calls available: not the port of a record in status
\* 'running' and not bound at the OS level.
PortAvailable(p) ==
  /\ \A w \in Workers : ~(Running(w) /\ db[w].port = p)
  /\ ~is_port_in_use(p)

\* C12: port allocation result -- allocate(start) returns the smallest port p
\* with start <= p <= 65535 that is not the port of any record in status
\* 'running' and is not bound at the OS level; it fails exactly when no such p
\* exists, and never returns a port above 65535.  Stated for every handler about
\* to call find_available_port(BASE_AGENT_PORT).
C12_AllocationResult ==
  \A r \in Reqs :
    req[r].pc = "s_launch" =>
      LET port == find_available_port(r, BASE_AGENT_PORT) IN
        /\ port # None =>
              /\ port >= BASE_AGENT_PORT /\ port <= PORT_MAX
              /\ PortAvailable(port)
              /\ \A p \in BASE_AGENT_PORT..(port - 1) : ~PortAvailable(p)
        /\ port = None <=> \A p \in BASE_AGENT_PORT..PORT_MAX : ~PortAvailable(p)

\* C13: port and pid are present only while running -- in every committed
\* registry state a record whose status is 'created', 'stopped' or 'error' has
\* port and pid null.
C13_PortPidOnlyWhileRunning ==
  \A w \in Workers :
    db[w].status \in {"created", "stopped", "error"} => db[w].port = None /\ db[w].pid = None

\* C14 (as stated): a stop request on a record in status 'stopped' or 'created'
\* succeeds, terminates no process, and leaves the record in status 'stopped'.
C14_StopNonRunningStopped ==
  [][\A r \in Reqs, id \in Workers :
       (StopLoad(r, id) /\ db[id].status \in {"stopped", "created"})
       => /\ Code(resp'.msg) = 200
          /\ procs' = procs /\ sent' = NoSignal
          /\ db'[id].status = "stopped"]_vars

\* C14 (amended): a stop request on a record in status 'stopped' or 'created'
\* succeeds (200, "is not running"), terminates and signals no process, and
\* leaves the registry as it was: a 'stopped' record stays 'stopped', a 'created'
\* record stays 'created'.
C14_StopNonRunning ==
  [][\A r \in Reqs, id \in Workers :
       (StopLoad(r, id) /\ db[id].status \in {"stopped", "created"})
       => /\ resp' = Resp("stop", id, "not_running", None, None)
          /\ Code(resp'.msg) = 200
          /\ procs' = procs /\ sent' = NoSignal
          /\ db' = db /\ req' = req]_vars

\* a stop of a 'created' record has been answered and the record is 'created'
C14_Witness ==
  /\ resp.op = "stop" /\ resp.msg = "not_running"
  /\ db[resp.id] = NewAgent
  /\ \E w \in Workers : db[w].status = "stopped"

\* C15: fresh start -- a start request on a record in status 'created', 'error'
\* or 'stopped' whose file exists, when a port is available and the child is
\* alive after the grace interval, ends with the record 'running', port equal to
\* the port just allocated (in [6000, 65535]) and pid equal to the child's pid,
\* and returns that port and pid.
C15_FreshStart ==
  [][\A r \in Reqs :
       (StartPoll(r) /\ req[r].sess.status \in {"created", "error", "stopped"}
          /\ procs[req[r].proc].state # "exited")
       => /\ resp' = Resp("start", req[r].id, "started", req[r].port, req[r].proc)
          /\ req[r].port >= BASE_AGENT_PORT /\ req[r].port <= PORT_MAX
          /\ db'[req[r].id] = Agents("running", req[r].port, req[r].proc)]_vars

\* C16: repair of an inconsistent record on stop -- a stop request on a record
\* with status 'running' and no pid sets the record to 'stopped' with port null,
\* sends no signal to any process, and reports success.
C16_RepairOnStop ==
  [][\A r \in Reqs, id \in Workers :
       (StopLoad(r, id) /\ Running(id) /\ db[id].pid = None)
       => /\ db'[id].status = "stopped" /\ db'[id].port = None
          /\ \A w \in Workers \ {id} : db'[w] = db[w]
          /\ sent' = NoSignal /\ procs' = procs
          /\ resp'.op = "stop" /\ resp'.id = id /\ Code(resp'.msg) = 200
          /\ req' = req]_vars

\* the repair has been reported for a record now 'stopped', and the worker
\* still alive on port 6000 was not signalled
C16_Witness ==
  /\ resp = Resp("stop", "w1", "reset", None, None)
  /\ db["w1"] = Agents("stopped", None, None)
  /\ procs[1].state = "alive"

\* C17: escalation order in terminate -- SIGKILL is sent to the group of a pid
\* only by a stop handler that sent SIGTERM to the group of that pid, waited out
\* the fixed interval, and then found the pid alive by the probe; when the probe
\* reports the process absent no signal is sent and the stop still succeeds.
C17_EscalationOrder ==
  [][/\ \A r \in Reqs :
          req'[r].pc = "t_wait" /\ req[r].pc # "t_wait"
          => sent' = Signal(req'[r].proc, "SIGTERM")
     /\ sent'.sig = "SIGKILL"
          => \E r \in Reqs : /\ StopCheck(r)
                             /\ req[r].pc = "t_wait"
                             /\ sent'.pid = req[r].proc
                             /\ ProbeOk(req[r].proc)
     /\ \A r \in Reqs :
          (StopCheck(r) /\ ~ProbeOk(req[r].proc))
          => /\ sent' = NoSignal /\ procs' = procs
             /\ resp' = Resp("stop", req[r].id, "stopped", None, None)
             /\ Code(resp'.msg) = 200]_vars

\* a stop has escalated: SIGKILL was delivered and the stop answered "stopped"
C17_Witness ==
  /\ sent.sig = "SIGKILL" /\ procs[sent.pid].state = "exited"
  /\ resp.op = "stop" /\ resp.msg = "stopped"
  /\ db[resp.id] = Agents("stopped", None, None)

\* The step is a step of a start or stop request on worker w.
RequestStepOn(w) ==
  \E r \in Reqs :
    \/ \E exists \in BOOLEAN : StartLoad(r, w, exists)
    \/ StopLoad(r, w)
    \/ req[r].id = w /\ (StartLaunch(r) \/ StartPoll(r) \/ StopCheck(r))

\* C18: no automatic reconciliation -- the status, port and pid of an existing
\* record change only in a step of a start or stop request on that worker; when
\* a worker's process exits on its own or is reaped, every record stays as it
\* is (a 'running' record keeps its port and pid).
C18_NoReconciliation ==
  [][/\ \A w \in Workers : (db[w] # NoRow /\ db'[w] # db[w]) => RequestStepOn(w)
     /\ \A p \in Pids : (ChildExit(p) \/ Reap(p)) => db' = db]_vars

\* a record is 'running' with the port and pid of a worker that has exited and
\* been reaped, and no request is in progress
C18_Witness ==
  /\ \E w \in Workers : /\ Running(w) /\ db[w].port # None /\ db[w].pid # None
                        /\ procs[db[w].pid].state = "free"
  /\ \A r \in Reqs : req[r].pc = "idle"
  /\ resp = NoResp

\* C19: records are never deleted by lifecycle operations -- once create has
\* committed a record, the record with that id is present after every step of
\* any start, stop, get or list request, failed ones included.
C19_RecordsNeverDeleted ==
  [][\A w \in Workers : db[w] # NoRow => db'[w] # NoRow]_vars

\* a start has failed at the launch and the record is still there
C19_Witness ==
  /\ resp.op = "start" /\ resp.msg = "launch_failed"
  /\ db[resp.id] # NoRow

\* C20: every start and every stop request eventually returns a response,
\* assuming each handler step is scheduled fairly: a handler inside a request is
\* eventually back between requests.
C20_RequestsReturn ==
  \A r \in Reqs : (req[r].pc # "idle") ~> (req[r].pc = "idle")

\* both handlers are inside a request: one in the grace sleep of a start, one in
\* the wait of a stop
C20_Witness ==
  \E r1, r2 \in Reqs : req[r1].pc = "s_grace" /\ req[r2].pc = "t_wait"

\* C21: no orphaned worker process -- once every in-flight start and stop
\* request has returned, every worker process spawned by a start request and
\* still alive is the pid of exactly one record in status 'running'.
C21_NoOrphan ==
  (\A r \in Reqs : req[r].pc = "idle")
  => \A p \in Pids :
       procs[p].state = "alive"
       => Cardinality({w \in Workers : Running(w) /\ db[w].pid = p}) = 1

\* C22: start with a missing source file -- a start request on a worker whose
\* file does not exist returns an error (404) without allocating a port or
\* spawning a process; the record is left unchanged if it was 'created',
\* 'stopped' or 'error', and is left 'error' with port and pid null if it was a
\* stale 'running' record.
C22_MissingFile ==
  [][\A r \in Reqs, id \in Workers :
       StartLoad(r, id, FALSE) =>
         /\ db[id].status \in {"created", "stopped", "error"}
              => /\ resp' = Resp("start", id, "file_missing", None, None)
                 /\ Code(resp'.msg) = 404
                 /\ db' = db /\ procs' = procs /\ req' = req
         /\ (Running(id) /\ db[id].pid # None /\ ~ProbeOk(db[id].pid))
              => /\ resp' = Resp("start", id, "file_missing", None, None)
                 /\ Code(resp'.msg) = 404
                 /\ db'[id] = Agents("error", None, None)
                 /\ \A w \in Workers \ {id} : db'[w] = db[w]
                 /\ procs' = procs /\ req' = req]_vars

\* a start has been refused for the missing file and the record is still
\* 'created', while the other worker runs
C22_Witness ==
  /\ resp = Resp("start", resp.id, "file_missing", None, None)
  /\ db[resp.id] = NewAgent
  /\ \E w \in Workers : Running(w) /\ w # resp.id

\* C23: stop on a record in status 'error' is a no-op -- it reports success,
\* signals no process, and leaves the record in status 'error' with port and
\* pid null; so only a step of a start request moves a record out of 'error'.
C23_StopOnError ==
  [][/\ \A r \in Reqs, id \in Workers :
          (StopLoad(r, id) /\ db[id].status = "error")
          => /\ resp'.op = "stop" /\ resp'.id = id /\ Code(resp'.msg) = 200
             /\ sent' = NoSignal /\ procs' = procs /\ req' = req
             /\ db'[id] = Agents("error", None, None)
     /\ \A w \in Workers :
          (db[w].status = "error" /\ db'[w].status # "error")
          => \E r \in Reqs :
               \/ \E exists \in BOOLEAN : StartLoad(r, w, exists)
               \/ req[r].id = w /\ (StartLaunch(r) \/ StartPoll(r))]_vars

====
